---- MODULE Spec2Model ----
(***************************************************************************)
(* Membership reconciliation of a Grafana organization, as implemented in  *)
(* grafana/resource_organization.go: collectUsers, userDiff, userMap,      *)
(* addUsers, updateUsers, removeUsers, CreateUsers, ReadUsers and          *)
(* UpdateUsers.                                                            *)
(*                                                                         *)
(* The remote service holds the organization's roster (email -> role) and  *)
(* the global user list (the identity directory).  The resource data holds *)
(* two versions of the three role lists: the prior ones (what d.GetChange  *)
(* returns as "old") and the configured ones ("new").                      *)
(*                                                                         *)
(* A role list is modelled as the set of its emails: collectUsers assigns  *)
(* the same role to every element of one list, so neither the order inside *)
(* a list nor a repetition inside a list influences any map it builds.     *)
(***************************************************************************)
EXTENDS Naturals, Integers, Sequences, FiniteSets, TLC

\* ---------------------------------------------------------------- bounds
\* members of the organization when a behaviour starts
MaxMembers == 2
\* entries of the three configured lists together
MaxEntries == 2
\* emails of the universe that the identity directory may lack
MaxUnresolved == 1
\* passes counted in one behaviour (the counter stops there)
MaxPasses == 2
\* roster entries another client may have changed since the last refresh
MaxDrift == 1
\* members and configured entries when a behaviour of repeated passes starts
RerunMembers == 2
RerunEntries == 1

\* ------------------------------------------------------------- universe
Emails == {"a", "b", "c"}

Roles == {"Admin", "Editor", "Viewer"}

\* "not a member of the organization"
NoRole == "none"

\* the remote numeric id of a user (userMap[user.Email] = user.Id)
Id(e) == CASE e = "a" -> 1 [] e = "b" -> 2 [] e = "c" -> 3

\* the login of a user; "c" is the account Grafana adds to every organization
Login(e) == IF e = "c" THEN "admin" ELSE e

\* the values of the "admin_user" attribute: its default and the blank string
AdminUserValues == {"admin", ""}

\* the three list attributes walked from viewers to admins
rolesReversed == <<"viewers", "editors", "admins">>

\* the three list attributes, in the order collectUsers walks them
roles == <<"admins", "editors", "viewers">>

\* strings.Title(role[:len(role)-1])
RoleName(role) ==
    CASE role = "admins" -> "Admin"
      [] role = "editors" -> "Editor"
      [] role = "viewers" -> "Viewer"

\* a list name that mixes editors and viewers up
ListNameSwapped(k) ==
    CASE k = "Admin" -> "admins"
      [] k = "Editor" -> "viewers"
      [] k = "Viewer" -> "editors"

\* fmt.Sprintf("%ss", strings.ToLower(k))
ListName(k) ==
    CASE k = "Admin" -> "admins"
      [] k = "Editor" -> "editors"
      [] k = "Viewer" -> "viewers"

ListKeys == {"admins", "editors", "viewers"}

EmptyMap == [u \in {} |-> NoRole]

\* m with key u set to r (a Go map assignment m[u] = r)
Put(m, u, r) == [x \in (DOMAIN m) \cup {u} |-> IF x = u THEN r ELSE m[x]]

\* ------------------------------------------------------------ collectUsers
\* the inner loop "for _, u := range list { m[u] = roleName }"
RECURSIVE AssignAll(_, _, _)
AssignAll(m, list, roleName) ==
    IF list = {} THEN m
    ELSE LET u == CHOOSE x \in list : TRUE
         IN AssignAll(Put(m, u, roleName), list \ {u}, roleName)

\* the outer loop over roles, from index i on
RECURSIVE collectFrom(_, _, _)
collectFrom(lists, i, m) ==
    IF i > Len(roles) THEN m
    ELSE collectFrom(lists, i + 1, AssignAll(m, lists[roles[i]], RoleName(roles[i])))

\* one of the two maps collectUsers returns, for one version of the lists
collectUsers(lists) == collectFrom(lists, 1, EmptyMap)

\* ---------------------------------------------------------------- userDiff
\* first loop: "for user, role := range newUsers", over the keys still to visit
RECURSIVE diffNew(_, _, _, _, _)
diffNew(oldUsers, newUsers, todo, add, update) ==
    IF todo = {} THEN <<add, update>>
    ELSE LET user == CHOOSE x \in todo : TRUE
             role == newUsers[user]
         IN IF user \notin DOMAIN oldUsers
            THEN diffNew(oldUsers, newUsers, todo \ {user}, Put(add, user, role), update)
            ELSE IF oldUsers[user] # role
                 THEN diffNew(oldUsers, newUsers, todo \ {user}, add, Put(update, user, role))
                 ELSE diffNew(oldUsers, newUsers, todo \ {user}, add, update)

\* second loop: "for user, _ := range oldUsers"
RECURSIVE diffOld(_, _, _)
diffOld(newUsers, todo, remove) ==
    IF todo = {} THEN remove
    ELSE LET user == CHOOSE x \in todo : TRUE
         IN IF user \notin DOMAIN newUsers
            THEN diffOld(newUsers, todo \ {user}, remove \cup {user})
            ELSE diffOld(newUsers, todo \ {user}, remove)

\* userDiff without its second loop: nobody is ever removed
userDiffNoRemove(oldUsers, newUsers) ==
    LET au == diffNew(oldUsers, newUsers, DOMAIN newUsers, EmptyMap, EmptyMap)
    IN [add |-> au[1], update |-> au[2], remove |-> {}]

\* userDiff without the test "oldRole != role": every common key is updated
userDiffAllUpdates(oldUsers, newUsers) ==
    LET au == diffNew(oldUsers, newUsers, DOMAIN newUsers, EmptyMap, EmptyMap)
    IN [add |-> au[1],
        update |-> [u \in DOMAIN newUsers \cap DOMAIN oldUsers |-> newUsers[u]],
        remove |-> diffOld(newUsers, DOMAIN oldUsers, {})]

\* userDiff that turns a role change into a removal and an addition
userDiffRemoveThenAdd(oldUsers, newUsers) ==
    LET changed == {u \in DOMAIN newUsers \cap DOMAIN oldUsers :
                        oldUsers[u] # newUsers[u]}
    IN [add |-> [u \in (DOMAIN newUsers \ DOMAIN oldUsers) \cup changed
                    |-> newUsers[u]],
        update |-> EmptyMap,
        remove |-> (DOMAIN oldUsers \ DOMAIN newUsers) \cup changed]

userDiff(oldUsers, newUsers) ==
    LET au == diffNew(oldUsers, newUsers, DOMAIN newUsers, EmptyMap, EmptyMap)
    IN [add |-> au[1], update |-> au[2],
        remove |-> diffOld(newUsers, DOMAIN oldUsers, {})]

\* ------------------------------------------------------------------ state
VARIABLES
    roster,      \* remote: the organization's members, email -> role or NoRole
    directory,   \* remote: the emails of the global user list (client.Users)
    admin_user,  \* resource data: the "admin_user" attribute
    newLists,    \* resource data: the configured admins/editors/viewers lists
    oldLists,    \* resource data: the prior admins/editors/viewers lists
    pc,          \* "idle", or the phase the running pass is in
    op,          \* which operation runs or ran last: "none", "create", "update", "read"
    oldUsers,    \* UpdateUsers/CreateUsers local: collectUsers' first result
    newUsers,    \* UpdateUsers/CreateUsers local: collectUsers' second result
    diff,        \* UpdateUsers local: [add, update, remove] as userDiff returned it
    userMapV,    \* the local userMap: email -> id
    fetchErr,    \* whether userMap(meta) returned an error in this pass
    todo,        \* keys the running phase's range loop has not visited yet
    calls,       \* the remote mutation calls issued by the pass, in order
    warnings,    \* the [WARN] Skipping ... lines logged by the pass
    result,      \* what the operation returned: "running", "nil" or "err"
    roster0,     \* the roster when the pass started
    rosterRead,  \* the roster as client.OrgUsers returned it to the last ReadUsers
    passes,      \* passes started so far, counted up to MaxPasses
    warnings0    \* the [WARN] Skipping ... lines logged by the pass before

vars == <<roster, directory, admin_user, newLists, oldLists, pc, op, oldUsers,
          newUsers, diff, userMapV, fetchErr, todo, calls, warnings, result,
          roster0, rosterRead, passes, warnings0>>

EmptyDiff == [add |-> EmptyMap, update |-> EmptyMap, remove |-> {}]

\* ------------------------------------------------------------- ReadUsers
\* roleMap without the test "orgUser.Login != grafAdmin"
roleMapNoExemption(orgUsers, grafAdmin) ==
    [k \in ListKeys |->
        {e \in Emails : orgUsers[e] # NoRole /\ ListName(orgUsers[e]) = k}]

\* roleMap that drops the default admin login whatever admin_user is
roleMapAlwaysExempt(orgUsers, grafAdmin) ==
    [k \in ListKeys |->
        {e \in Emails : /\ orgUsers[e] # NoRole
                        /\ Login(e) # "admin"
                        /\ ListName(orgUsers[e]) = k}]

\* the roleMap that ReadUsers builds from client.OrgUsers and stores with d.Set
roleMap(orgUsers, grafAdmin) ==
    [k \in ListKeys |->
        {e \in Emails : /\ orgUsers[e] # NoRole
                        /\ Login(e) # grafAdmin
                        /\ ListName(orgUsers[e]) = k}]

\* ---------------------------------------------------------------- userMap
\* the map userMap builds from client.Users: email -> id
userMap(users) == [e \in users |-> Id(e)]

\* a lookup in the user map that never finds the user
KnownNever(m, user) == FALSE

\* the lookup "_, ok := userMap[user]"
Known(m, user) == user \in DOMAIN m

\* --------------------------------------------------------- remote service
\* whether the service can carry the call out: a member cannot be added again,
\* only a member can be updated or removed
Accepts(kind, user) ==
    IF kind = "add" THEN roster[user] = NoRole ELSE roster[user] # NoRole

\* the roster after a successful call
Applied(kind, user, role) ==
    [roster EXCEPT ![user] = IF kind = "remove" THEN NoRole ELSE role]

\* the record of one call: AddOrgUser(orgId, user, role),
\* UpdateOrgUser(orgId, userId, role), RemoveOrgUser(orgId, userId)
Call(kind, user, m, role, ok) ==
    [kind |-> kind,
     user |-> IF kind = "add" THEN user ELSE "",
     id   |-> IF kind = "add" THEN 0 ELSE m[user],
     role |-> IF kind = "remove" THEN "" ELSE role,
     ok   |-> ok]

\* the email a call is about
EmailOf(c) == IF c.kind = "add" THEN c.user ELSE CHOOSE e \in Emails : Id(e) = c.id

\* ------------------------------------------------------------ UpdateUsers
\* UpdateUsers with removeUsers called first
PhasesRemoveFirst == <<"remove", "add", "update">>

\* the order of the three calls at the end of UpdateUsers
Phases == <<"add", "update", "remove">>

\* the keys a phase ranges over
PhaseKeys(d, phase) ==
    CASE phase = "add" -> DOMAIN d.add
      [] phase = "update" -> DOMAIN d.update
      [] phase = "remove" -> d.remove

\* the role a phase passes to its call
PhaseRole(d, phase, user) ==
    CASE phase = "add" -> d.add[user]
      [] phase = "update" -> d.update[user]
      [] phase = "remove" -> ""

PhaseIndex(phase) == CHOOSE i \in 1..Len(Phases) : Phases[i] = phase

\* userMap's error ignored: the pass goes on with the map as it is
AfterFetchIgnored(o, err) ==
    [pc |-> IF o = "create" THEN "add" ELSE Phases[1], result |-> "running"]

\* "if err != nil { return err }" after userMap(meta): [pc, result]
AfterFetch(o, err) ==
    IF err
    THEN [pc |-> "idle", result |-> "err"]
    ELSE [pc |-> IF o = "create" THEN "add" ELSE Phases[1], result |-> "running"]

\* CreateUsers treated like UpdateUsers: the error is dropped, the next phase runs
AfterPhaseDropsError(o, phase, err) ==
    IF PhaseIndex(phase) < Len(Phases)
    THEN [pc |-> Phases[PhaseIndex(phase) + 1], result |-> "running"]
    ELSE [pc |-> "idle", result |-> "nil"]

\* a phase that starts over when one of its calls failed
AfterPhaseRetry(o, phase, err) ==
    IF err
    THEN [pc |-> phase, result |-> "running"]
    ELSE IF o = "create"
         THEN [pc |-> "idle", result |-> "nil"]
         ELSE IF PhaseIndex(phase) < Len(Phases)
              THEN [pc |-> Phases[PhaseIndex(phase) + 1], result |-> "running"]
              ELSE [pc |-> "idle", result |-> "nil"]

\* where control goes when addUsers/updateUsers/removeUsers returns err (TRUE)
\* or nil (FALSE) to the operation o: CreateUsers returns what addUsers returned,
\* UpdateUsers drops the value, calls the next one and returns nil at the end
AfterPhase(o, phase, err) ==
    IF o = "create"
    THEN [pc |-> "idle", result |-> IF err THEN "err" ELSE "nil"]
    ELSE IF PhaseIndex(phase) < Len(Phases)
         THEN [pc |-> Phases[PhaseIndex(phase) + 1], result |-> "running"]
         ELSE [pc |-> "idle", result |-> "nil"]

\* the diff a pass works on: CreateUsers adds every configured user
PassDiff(o, old, new) ==
    IF o = "create"
    THEN [add |-> new, update |-> EmptyMap, remove |-> {}]
    ELSE userDiff(old, new)

\* ------------------------------------------------------------------- Init
\* the number of entries of the three lists together
Entries(lists) ==
    Cardinality(lists["admins"]) + Cardinality(lists["editors"])
        + Cardinality(lists["viewers"])

Members(r) == {e \in Emails : r[e] # NoRole}

\* the rosters, directories and configurations a behaviour may start from
InitRosters == {r \in [Emails -> Roles \cup {NoRole}] : Cardinality(Members(r)) <= MaxMembers}

InitDirectories == {s \in SUBSET Emails : Cardinality(Emails \ s) <= MaxUnresolved}

InitLists == {l \in [ListKeys -> SUBSET Emails] : Entries(l) <= MaxEntries}

\* what does not depend on the input
InitLocals ==
    /\ pc = "idle"
    /\ op = "none"
    /\ oldUsers = EmptyMap
    /\ newUsers = EmptyMap
    /\ diff = EmptyDiff
    /\ userMapV = EmptyMap
    /\ fetchErr = FALSE
    /\ todo = {}
    /\ calls = <<>>
    /\ warnings = {}
    /\ result = "nil"
    /\ roster0 = roster
    /\ rosterRead = roster
    /\ warnings0 = {}
    /\ passes = 0

\* the prior lists are those of the last refresh (ReadOrganization)
Init ==
    /\ roster \in InitRosters
    /\ directory \in InitDirectories
    /\ admin_user \in AdminUserValues
    /\ newLists \in InitLists
    /\ oldLists = roleMap(roster, admin_user)
    /\ InitLocals

\* ------------------------------------------------------------- operations
\* ReadUsers: client.OrgUsers fails (ok = FALSE), or the three lists are stored
ReadUsersReturns(ok) ==
    /\ pc = "idle"
    /\ op' = "read"
    /\ result' = IF ok THEN "nil" ELSE "err"
    /\ oldLists' = IF ok THEN roleMap(roster, admin_user) ELSE oldLists
    /\ rosterRead' = IF ok THEN roster ELSE rosterRead
    /\ UNCHANGED <<roster, directory, admin_user, newLists, pc, oldUsers, newUsers,
                   diff, userMapV, fetchErr, todo, calls, warnings, roster0, passes,
                   warnings0>>

ReadUsers == \E ok \in BOOLEAN : ReadUsersReturns(ok)

\* the old side of d.GetChange, were it fetched from the service by the pass
GetChangeOldFetched == roleMap(roster, admin_user)

\* the old side of d.GetChange(role): the lists the resource data holds from
\* before, which is what the last ReadUsers stored
GetChangeOld == oldLists

\* CreateUsers (o = "create") or UpdateUsers (o = "update") up to the first
\* phase: collectUsers, userDiff, userMap; ok is whether client.Users succeeds
Begin(o, ok) ==
    /\ pc = "idle"
    /\ passes' = IF passes < MaxPasses THEN passes + 1 ELSE passes
    /\ op' = o
    /\ oldUsers' = collectUsers(GetChangeOld)
    /\ newUsers' = collectUsers(newLists)
    /\ diff' = PassDiff(o, oldUsers', newUsers')
    /\ calls' = <<>>
    /\ warnings' = {}
    /\ roster0' = roster
    /\ fetchErr' = ~ok
    /\ userMapV' = IF ok THEN userMap(directory) ELSE EmptyMap
    /\ pc' = AfterFetch(o, ~ok).pc
    /\ result' = AfterFetch(o, ~ok).result
    /\ todo' = IF pc' = "idle" THEN {} ELSE PhaseKeys(diff', pc')
    /\ warnings0' = warnings
    /\ UNCHANGED <<roster, directory, admin_user, newLists, oldLists, rosterRead>>

UpdateUsers == \E ok \in BOOLEAN : Begin("update", ok)

\* CreateUsers runs on the organization CreateOrganization just made, which
\* holds at most the account Grafana adds by itself
CreateUsers ==
    /\ \A e \in Emails : roster[e] # NoRole => Login(e) = "admin"
    /\ \E ok \in BOOLEAN : Begin("create", ok)

\* one iteration of a phase's range loop, on a user the map does not hold:
\* log.Printf("[WARN] Skipping ..."); continue
Skip(phase, user) ==
    /\ pc = phase
    /\ user \in todo
    /\ ~Known(userMapV, user)
    /\ warnings' = warnings \cup {<<phase, user>>}
    /\ todo' = todo \ {user}
    /\ UNCHANGED <<roster, directory, admin_user, newLists, oldLists, pc, op,
                   oldUsers, newUsers, diff, userMapV, fetchErr, calls, result,
                   roster0, rosterRead, passes,
                   warnings0>>

\* one iteration whose remote call succeeds
CallOk(phase, user) ==
    /\ pc = phase
    /\ user \in todo
    /\ Known(userMapV, user)
    /\ Accepts(phase, user)
    /\ calls' = Append(calls,
            Call(phase, user, userMapV, PhaseRole(diff, phase, user), TRUE))
    /\ roster' = Applied(phase, user, PhaseRole(diff, phase, user))
    /\ todo' = todo \ {user}
    /\ UNCHANGED <<directory, admin_user, newLists, oldLists, pc, op, oldUsers,
                   newUsers, diff, userMapV, fetchErr, warnings, result, roster0,
                   rosterRead, passes,
                   warnings0>>

\* one iteration whose remote call fails: return err
CallErr(phase, user) ==
    /\ pc = phase
    /\ user \in todo
    /\ Known(userMapV, user)
    /\ calls' = Append(calls,
            Call(phase, user, userMapV, PhaseRole(diff, phase, user), FALSE))
    /\ pc' = AfterPhase(op, phase, TRUE).pc
    /\ result' = AfterPhase(op, phase, TRUE).result
    /\ todo' = IF pc' = "idle" THEN {} ELSE PhaseKeys(diff, pc')
    /\ UNCHANGED <<roster, directory, admin_user, newLists, oldLists, op, oldUsers,
                   newUsers, diff, userMapV, fetchErr, warnings, roster0, rosterRead, passes,
                   warnings0>>

\* the range loop is over: return nil
PhaseReturn(phase) ==
    /\ pc = phase
    /\ todo = {}
    /\ pc' = AfterPhase(op, phase, FALSE).pc
    /\ result' = AfterPhase(op, phase, FALSE).result
    /\ todo' = IF pc' = "idle" THEN {} ELSE PhaseKeys(diff, pc')
    /\ UNCHANGED <<roster, directory, admin_user, newLists, oldLists, op, oldUsers,
                   newUsers, diff, userMapV, fetchErr, calls, warnings, roster0,
                   rosterRead, passes,
                   warnings0>>

PhaseStep(phase) ==
    \E user \in Emails :
        \/ Skip(phase, user)
        \/ CallOk(phase, user)
        \/ CallErr(phase, user)

addUsers == PhaseStep("add") \/ PhaseReturn("add")

updateUsers == PhaseStep("update") \/ PhaseReturn("update")

removeUsers == PhaseStep("remove") \/ PhaseReturn("remove")

\* one behaviour of Spec is one pass: a refresh, then CreateUsers or UpdateUsers
Next ==
    \/ (passes = 0 /\ op = "none" /\ ReadUsers)
    \/ (passes = 0 /\ UpdateUsers)
    \/ (passes = 0 /\ op = "none" /\ CreateUsers)
    \/ addUsers
    \/ updateUsers
    \/ removeUsers

Spec == Init /\ [][Next]_vars

\* ----------------------------------------------------------------- claims
\* a pass of UpdateUsers has computed its diff
Diffed == op = "update"

\* the pass has returned
Returned == pc = "idle" /\ op \in {"create", "update"}

\* C2: userDiff returns exactly: add = the keys of newUsers absent from
\* oldUsers, each with its new role; update = the keys of both whose roles
\* differ, each with its new role; remove = the keys of oldUsers absent from
\* newUsers (so an empty newUsers gives remove = all keys of oldUsers and an
\* empty add and update).
C2_DiffExact ==
    Diffed =>
        /\ DOMAIN diff.add = {e \in Emails : e \in DOMAIN newUsers /\ e \notin DOMAIN oldUsers}
        /\ \A e \in DOMAIN diff.add : diff.add[e] = newUsers[e]
        /\ DOMAIN diff.update =
              {e \in Emails : /\ e \in DOMAIN newUsers
                              /\ e \in DOMAIN oldUsers
                              /\ oldUsers[e] # newUsers[e]}
        /\ \A e \in DOMAIN diff.update : diff.update[e] = newUsers[e]
        /\ diff.remove = {e \in Emails : e \in DOMAIN oldUsers /\ e \notin DOMAIN newUsers}
        /\ (newUsers = EmptyMap =>
              /\ diff.remove = DOMAIN oldUsers
              /\ diff.add = EmptyMap
              /\ diff.update = EmptyMap)

\* a diff with an add, an update and a remove at once
C2_Witness ==
    /\ Diffed
    /\ diff.add # EmptyMap
    /\ diff.update # EmptyMap
    /\ diff.remove # {}

\* an empty desired state against a non-empty observed one
C2_WitnessEmptyDesired ==
    /\ Diffed
    /\ newUsers = EmptyMap
    /\ Cardinality(DOMAIN oldUsers) = 2

\* C3: for equal maps, userDiff(O, O) returns an empty add, an empty update
\* and an empty remove.
C3_Idempotent ==
    (Diffed /\ oldUsers = newUsers) => diff = EmptyDiff

\* two equal maps with two entries
C3_Witness ==
    /\ Diffed
    /\ oldUsers = newUsers
    /\ Cardinality(DOMAIN oldUsers) = 2

\* C4: no key of update has the same role in oldUsers and newUsers, and a key
\* with the same role in both is in none of add, update and remove.
C4_Minimal ==
    Diffed =>
        /\ \A e \in DOMAIN diff.update : oldUsers[e] # newUsers[e]
        /\ \A e \in DOMAIN oldUsers \cap DOMAIN newUsers :
              oldUsers[e] = newUsers[e] =>
                  /\ e \notin DOMAIN diff.add
                  /\ e \notin DOMAIN diff.update
                  /\ e \notin diff.remove

\* one key keeps its role while another one changes it
C4_Witness ==
    /\ Diffed
    /\ \E e \in DOMAIN oldUsers \cap DOMAIN newUsers : oldUsers[e] = newUsers[e]
    /\ diff.update # EmptyMap

\* the emails that the calls of one kind issued so far are about
Called(kind) == {EmailOf(calls[i]) : i \in {j \in 1..Len(calls) : calls[j].kind = kind}}

\* every call the pass issued succeeded
AllCallsOk == \A i \in 1..Len(calls) : calls[i].ok

\* the roster, the exempt account aside, is the desired state
RosterIsDesired ==
    /\ \A e \in DOMAIN newUsers : roster[e] = newUsers[e]
    /\ \A e \in Emails \ DOMAIN newUsers : roster[e] = NoRole \/ Login(e) = admin_user

\* the observed state of the pass is the roster it started on, the exempt
\* account aside
ObservedWasRoster == oldUsers = collectUsers(roleMap(roster0, admin_user))

\* an UpdateUsers pass that fetched the directory, returned, and saw no call fail
CleanPass ==
    /\ Returned
    /\ op = "update"
    /\ ~fetchErr
    /\ AllCallsOk
    /\ ObservedWasRoster

\* C1 as stated: if every email of the desired state resolves and every remote
\* call succeeds, the pass leaves the roster (exempt account aside) equal to
\* the desired state.
C1_CompleteWhenDesiredResolves ==
    (CleanPass /\ DOMAIN newUsers \subseteq DOMAIN userMapV) => RosterIsDesired

\* C1 amended: if every email of the desired state and of the observed state
\* resolves and every remote call succeeds, the pass leaves the roster (exempt
\* account aside) equal to the desired state.
C1_Complete ==
    (/\ CleanPass
     /\ DOMAIN newUsers \subseteq DOMAIN userMapV
     /\ DOMAIN oldUsers \subseteq DOMAIN userMapV) => RosterIsDesired

\* a clean pass that added, updated and removed
C1_Witness ==
    /\ CleanPass
    /\ DOMAIN newUsers \subseteq DOMAIN userMapV
    /\ DOMAIN oldUsers \subseteq DOMAIN userMapV
    /\ Called("add") # {}
    /\ Called("update") # {}
    /\ Called("remove") # {}

\* the place of a call's kind in the order add, update, remove
Rank(kind) == CASE kind = "add" -> 1 [] kind = "update" -> 2 [] kind = "remove" -> 3

\* C5: in every pass every AddOrgUser call comes before every UpdateOrgUser
\* call and every UpdateOrgUser call before every RemoveOrgUser call, whatever
\* the outcome of the earlier calls.
C5_PhaseOrder ==
    \A i, j \in 1..Len(calls) : i < j => Rank(calls[i].kind) <= Rank(calls[j].kind)

\* a pass whose add failed and which still issued an update and a remove
C5_Witness ==
    /\ Len(calls) = 3
    /\ calls[1].kind = "add" /\ ~calls[1].ok
    /\ calls[2].kind = "update"
    /\ calls[3].kind = "remove"

\* C6: in an UpdateUsers pass whose fetch succeeded, every diff entry whose email resolves
\* has had its remote call attempted when the pass returns, whichever calls
\* failed.
C6_FailureBlocksNothing ==
    (Returned /\ op = "update" /\ ~fetchErr) =>
        \A kind \in {"add", "update", "remove"} :
            \A e \in PhaseKeys(diff, kind) : Known(userMapV, e) => e \in Called(kind)

\* C7: a pass returns success only if every call it attempted succeeded.
C7_FailuresReported ==
    (Returned /\ result = "nil") => AllCallsOk

\* C8: if building the directory fails, the pass returns that error, issues
\* no call and leaves the roster as it was, in UpdateUsers and in CreateUsers.
C8_FetchFatal ==
    (op \in {"create", "update"} /\ fetchErr) =>
        /\ pc = "idle"
        /\ result = "err"
        /\ calls = <<>>
        /\ roster = roster0

\* UpdateUsers gave up on a fetch failure with work to do
C8_Witness ==
    /\ op = "update"
    /\ fetchErr
    /\ diff.add # EmptyMap
    /\ diff.remove # {}

\* CreateUsers gave up on a fetch failure with users to add
C8_WitnessCreate ==
    /\ op = "create"
    /\ fetchErr
    /\ newUsers # EmptyMap

\* the emails of the diff
DiffEmails == DOMAIN diff.add \cup DOMAIN diff.update \cup diff.remove

\* no call of the pass is about an email the directory lacks
NoCallForUnknown ==
    \A i \in 1..Len(calls) : Known(userMapV, EmailOf(calls[i]))

\* Scenario A: observed {a: Editor, b: Viewer}, desired {a: Admin, c: Viewer},
\* directory {a: 1, b: 2}
ScenarioA ==
    /\ op = "update"
    /\ oldUsers = [e \in {"a", "b"} |-> IF e = "a" THEN "Editor" ELSE "Viewer"]
    /\ newUsers = [e \in {"a", "c"} |-> IF e = "a" THEN "Admin" ELSE "Viewer"]
    /\ userMapV = [e \in {"a", "b"} |-> Id(e)]
    /\ ~fetchErr

\* the calls of a pass, without their outcome
CallsMade == {[kind |-> calls[i].kind, user |-> calls[i].user, id |-> calls[i].id,
               role |-> calls[i].role] : i \in 1..Len(calls)}

ScenarioACalls ==
    {[kind |-> "update", user |-> "", id |-> 1, role |-> "Admin"],
     [kind |-> "remove", user |-> "", id |-> 2, role |-> ""]}

\* C9: when an email of the diff does not resolve, no call of the pass is
\* about that email and the operation of every other, resolvable, email of the
\* diff is executed; Scenario A ends with exactly UpdateOrgUser(org, 1, Admin)
\* and RemoveOrgUser(org, 2).
C9_UnknownUserSkip ==
    /\ NoCallForUnknown
    /\ (/\ Returned
        /\ ~fetchErr
        /\ \E e \in DiffEmails : ~Known(userMapV, e)) =>
            \A kind \in {"add", "update", "remove"} :
                \A e \in PhaseKeys(diff, kind) : Known(userMapV, e) => e \in Called(kind)
    /\ (ScenarioA /\ Returned) => CallsMade = ScenarioACalls

\* what of C9 the skip alone decides: no call is about an unresolved email,
\* and Scenario A ends with exactly its two calls
C9_SkipAlone ==
    /\ NoCallForUnknown
    /\ (ScenarioA /\ Returned) => CallsMade = ScenarioACalls

\* Scenario A has returned, with a warning for c
C9_ScenarioReached ==
    /\ ScenarioA
    /\ Returned
    /\ warnings = {<<"add", "c">>}

\* ------------------------------------------------- passes run repeatedly
\* the desired state of the configuration
Desired == collectUsers(newLists)

\* the observed state a refresh would store now
Observed == collectUsers(roleMap(roster, admin_user))

\* a refresh succeeded and no pass has started since
Refreshed == op = "read" /\ result = "nil"

\* every pass is a refresh (ReadOrganization) followed by UpdateUsers, over and
\* over; nobody else touches the roster, the directory or the configuration
NextRerun ==
    \/ (~Refreshed /\ ReadUsers)
    \/ (Refreshed /\ UpdateUsers)
    \/ addUsers
    \/ updateUsers
    \/ removeUsers

\* passes keep being run, and a remote call that is tried again and again
\* succeeds in the end
SomeCallOk == \E phase \in {"add", "update", "remove"} : \E user \in Emails : CallOk(phase, user)

FairRerun ==
    /\ WF_vars(NextRerun)
    /\ SF_vars(ReadUsersReturns(TRUE))
    /\ SF_vars(Begin("update", TRUE))
    /\ SF_vars(SomeCallOk)

\* the last refresh is the one that starts the first pass
InitRerun ==
    /\ roster \in {r \in InitRosters : Cardinality(Members(r)) <= RerunMembers}
    /\ directory \in InitDirectories
    /\ admin_user \in AdminUserValues
    /\ newLists \in {l \in InitLists : Entries(l) <= RerunEntries}
    /\ oldLists = roleMap(roster, admin_user)
    /\ InitLocals

SpecRerun == InitRerun /\ [][NextRerun]_vars /\ FairRerun


\* the roster agrees with the desired state on every account but the exempt one
Converged ==
    \A e \in Emails :
        Login(e) # admin_user =>
            roster[e] = IF e \in DOMAIN Desired THEN Desired[e] ELSE NoRole

\* C10 as stated: if every email of the desired state resolves, repeated
\* passes whose calls succeed in the end bring the roster (exempt account
\* aside) to the desired state, where it stays.
C10_RerunWhenDesiredResolves ==
    (DOMAIN Desired \subseteq directory) => <>[]Converged

\* C10 amended: if every email of the desired state and every member of the
\* roster other than the exempt account resolves, repeated passes whose calls
\* succeed in the end bring the roster (exempt account aside) to the desired
\* state, where it stays.
C10_Rerun ==
    (DOMAIN Desired \cup DOMAIN Observed \subseteq directory) => <>[]Converged

\* a second pass has brought the roster to the desired state that the first
\* pass had left unfinished
C10_Witness ==
    /\ passes = 2
    /\ Converged
    /\ calls # <<>>
    /\ AllCallsOk
    /\ DOMAIN Desired \cup DOMAIN Observed \subseteq directory

\* ------------------------------------------------------------- exemption
\* the emails one of the three configured lists names
Configured == newLists["admins"] \cup newLists["editors"] \cup newLists["viewers"]

\* the exemption is on and e is a member with the exempt login
ExemptMember(e) ==
    /\ admin_user # ""
    /\ Login(e) = admin_user
    /\ roster0[e] # NoRole

\* C11 as stated: with a non-empty exempt login, a member that has that login
\* is in neither the observed nor the desired state, so whatever the three
\* configured lists are it is in none of add, update and remove and no call of
\* the pass is about it.
C11_ExemptNeverTouched ==
    Diffed =>
        \A e \in Emails :
            ExemptMember(e) =>
                /\ e \notin DOMAIN oldUsers
                /\ e \notin DOMAIN newUsers
                /\ e \notin DiffEmails
                /\ \A i \in 1..Len(calls) : EmailOf(calls[i]) # e

\* C11 amended: with a non-empty exempt login, a member that has that login is
\* not in the observed state, so whatever the three configured lists are it is
\* in neither update nor remove and no UpdateOrgUser or RemoveOrgUser call is
\* about it; it is in the desired state and in add exactly when a configured
\* list names its email, and only then may an AddOrgUser call be about it.
C11_ExemptNeverUpdatedOrRemoved ==
    Diffed =>
        \A e \in Emails :
            ExemptMember(e) =>
                /\ e \notin DOMAIN oldUsers
                /\ e \notin DOMAIN diff.update
                /\ e \notin diff.remove
                /\ e \notin Called("update") \cup Called("remove")
                /\ (e \in DOMAIN newUsers <=> e \in Configured)
                /\ (e \in DOMAIN diff.add <=> e \in Configured)
                /\ (e \in Called("add") => e \in Configured)

\* a pass that removed somebody else has returned; the exempt member, which no
\* list names, is still there
C11_Witness ==
    /\ Diffed
    /\ Returned
    /\ ExemptMember("c")
    /\ "c" \notin Configured
    /\ Called("remove") # {}
    /\ roster["c"] # NoRole


\* a call of the given kind failed, which ends that phase
PhaseAborted(kind) ==
    \E i \in 1..Len(calls) : calls[i].kind = kind /\ ~calls[i].ok

\* scenario B: nothing is desired, the exemption is off and the only member is
\* the account with the default admin login, which the user list knows
ScenarioB ==
    /\ Diffed
    /\ admin_user = ""
    /\ Configured = {}
    /\ roster0 = [e \in Emails |-> IF e = "c" THEN "Admin" ELSE NoRole]
    /\ "c" \in DOMAIN userMapV
    /\ ~fetchErr

LastListRole(lists, e) ==
    IF e \in lists["viewers"] THEN "Viewer"
    ELSE IF e \in lists["editors"] THEN "Editor"
    ELSE "Admin"

\* the emails that more than one of the three lists names
InSeveral(lists) ==
    {e \in Emails : Cardinality({k \in ListKeys : e \in lists[k]}) > 1}

\* the state that gives every email some list names the role of the last list
\* naming it
LastListWins(lists) ==
    [e \in lists["admins"] \cup lists["editors"] \cup lists["viewers"]
        |-> LastListRole(lists, e)]

\* C13: the map collectUsers builds from three lists has exactly the emails
\* some list names as keys and gives each one role: the role of the last of
\* admins, editors, viewers that names it, which for an email in one list is
\* that list's role.  This holds for the desired state of every pass and for
\* the observed state of an update pass.
C13_LastListWins ==
    /\ op \in {"create", "update"} => newUsers = LastListWins(newLists)
    /\ op = "update" => oldUsers = LastListWins(oldLists)
    /\ \A e \in Emails : \A k \in ListKeys :
          (op \in {"create", "update"}
              /\ {j \in ListKeys : e \in newLists[j]} = {k})
            => newUsers[e] = RoleName(k)

\* a pass whose configuration names "a" under admins and under viewers
C13_Witness ==
    /\ op \in {"create", "update"}
    /\ "a" \in newLists["admins"] \cap newLists["viewers"]
    /\ InSeveral(newLists) = {"a"}
    /\ newUsers["a"] = "Viewer"


\* ------------------------------------------------- observed-state projection
\* the roster entries whose login is not the exempt login
Reported == {e \in Emails : roster[e] # NoRole /\ Login(e) # admin_user}

\* the exposed lists that name e
ListsNaming(e) == {k \in ListKeys : e \in oldLists[k]}

\* C14: after a successful roster read every roster entry whose login differs
\* from the exempt login is in exactly one of the three exposed lists, the one
\* of its reported role; the exempt login's email (and every non-member) is in
\* none; and collectUsers over the exposed lists gives back the state that
\* maps each of those entries to its reported role.
C14_Projection ==
    Refreshed =>
        /\ \A e \in Reported :
              ListsNaming(e) = {k \in ListKeys : RoleName(k) = roster[e]}
        /\ \A e \in Reported : Cardinality(ListsNaming(e)) = 1
        /\ \A e \in Emails \ Reported : ListsNaming(e) = {}
        /\ collectUsers(oldLists) = [e \in Reported |-> roster[e]]

\* a refresh after a pass that changed the roster, with the exempt account and
\* an editor or viewer among the members
C14_Witness ==
    /\ Refreshed
    /\ passes >= 1
    /\ roster # roster0
    /\ admin_user = "admin"
    /\ roster["c"] # NoRole
    /\ \E e \in Reported : roster[e] \in {"Editor", "Viewer"}
    /\ oldLists # roleMap(roster0, admin_user)


\* --------------------------------------------------------------- role change
\* the members of the observed state that the desired state gives another role
RoleChanged ==
    {e \in DOMAIN oldUsers \cap DOMAIN newUsers :
        oldUsers[e] # newUsers[e] /\ roster0[e] # NoRole}

\* the calls of the pass so far that are about e
CallsAbout(e) == {i \in 1..Len(calls) : EmailOf(calls[i]) = e}

\* C15: a user that is a member in the observed state and has another role in
\* the desired state is in update and in neither add nor remove; the calls of
\* the pass about it are at most one, an UpdateOrgUser with the desired role,
\* never an AddOrgUser or a RemoveOrgUser, and it is a member of the roster in
\* every state of the pass.
C15_NoTransientLoss ==
    Diffed =>
        \A e \in RoleChanged :
            /\ e \in DOMAIN diff.update
            /\ diff.update[e] = newUsers[e]
            /\ e \notin DOMAIN diff.add
            /\ e \notin diff.remove
            /\ Cardinality(CallsAbout(e)) <= 1
            /\ \A i \in CallsAbout(e) :
                  calls[i].kind = "update" /\ calls[i].role = newUsers[e]
            /\ roster[e] # NoRole
            /\ roster[e] = IF \E i \in CallsAbout(e) : calls[i].ok
                           THEN newUsers[e]
                           ELSE roster0[e]

\* a pass that also added and removed somebody has changed a member's role
\* with one call
C15_Witness ==
    /\ Diffed
    /\ Returned
    /\ \E e \in RoleChanged :
          /\ e \in Called("update")
          /\ roster0[e] # roster[e]
          /\ roster[e] = newUsers[e]
    /\ Called("remove") # {}


\* ------------------------------------------------- one operation per user
\* the number of operations of the diff
DiffSize ==
    Cardinality(DOMAIN diff.add) + Cardinality(DOMAIN diff.update)
        + Cardinality(diff.remove)

\* C17: the key sets of add, update and remove are pairwise disjoint, they
\* hold together at most as many emails as the observed and the desired state
\* name, and a pass issues at most one call about any email, whether that call
\* succeeded or failed.
C17_OneOperationPerUser ==
    op \in {"create", "update"} =>
        /\ DOMAIN diff.add \cap DOMAIN diff.update = {}
        /\ DOMAIN diff.add \cap diff.remove = {}
        /\ DOMAIN diff.update \cap diff.remove = {}
        /\ DiffSize <= Cardinality(DOMAIN oldUsers \cup DOMAIN newUsers)
        /\ \A e \in Emails : Cardinality(CallsAbout(e)) <= 1
        /\ Len(calls) <= DiffSize

\* a pass has returned after a failed call about one user and a call about
\* another
C17_Witness ==
    /\ Diffed
    /\ Returned
    /\ DiffSize >= 2
    /\ Len(calls) = 2
    /\ \E i \in 1..Len(calls) : ~calls[i].ok


\* --------------------------------------------------------------- create path
\* CreateUsers is running or has returned, and client.Users succeeded
Creating == op = "create" /\ ~fetchErr

\* the position of the first failed call of the pass, or 0
FirstFailure ==
    IF AllCallsOk THEN 0
    ELSE CHOOSE i \in 1..Len(calls) :
            ~calls[i].ok /\ \A j \in 1..(i - 1) : calls[j].ok

\* C19: when client.Users succeeds, CreateUsers runs the add phase only and
\* issues only AddOrgUser calls, at most one per desired email, only for emails
\* the user list holds, each with the email's desired role; a failed call is
\* the last call of the pass and CreateUsers returns its error; when no call
\* failed CreateUsers returns nil after a call for every desired email the user
\* list holds.
C19_CreatePath ==
    Creating =>
        /\ pc \in {"add", "idle"}
        /\ \A i \in 1..Len(calls) :
              /\ calls[i].kind = "add"
              /\ calls[i].user \in DOMAIN newUsers \cap DOMAIN userMapV
              /\ calls[i].role = newUsers[calls[i].user]
        /\ \A e \in Emails : Cardinality(CallsAbout(e)) <= 1
        /\ FirstFailure # 0 =>
              /\ FirstFailure = Len(calls)
              /\ pc = "idle"
              /\ result = "err"
        /\ (Returned /\ FirstFailure = 0) =>
              /\ result = "nil"
              /\ Called("add") = DOMAIN newUsers \cap DOMAIN userMapV

\* CreateUsers has returned the error of its second call
C19_Witness ==
    /\ Creating
    /\ Returned
    /\ Len(calls) = 2
    /\ FirstFailure = 2
    /\ result = "err"

\* CreateUsers has returned nil after adding one user and skipping another
C19_WitnessSuccess ==
    /\ Creating
    /\ Returned
    /\ result = "nil"
    /\ Len(calls) = 1
    /\ warnings # {}


\* ------------------------------------------- the roster changes from outside
\* the entries in which the roster differs from what the last refresh read
Drift == {e \in Emails : roster[e] # rosterRead[e]}

\* another client of the service adds or removes a member or changes a role
\* while no pass is running
ExternalChange ==
    /\ pc = "idle"
    /\ Cardinality(Drift) < MaxDrift
    /\ \E e \in Emails : \E r \in Roles \cup {NoRole} :
          /\ roster[e] # r
          /\ roster' = [roster EXCEPT ![e] = r]
    /\ UNCHANGED <<directory, admin_user, newLists, oldLists, pc, op, oldUsers,
                   newUsers, diff, userMapV, fetchErr, todo, calls, warnings,
                   result, roster0, rosterRead, passes,
                   warnings0>>

\* one update pass, with a refresh and changes from outside before it
NextDrift ==
    \/ (passes = 0 /\ ExternalChange)
    \/ (passes = 0 /\ op = "none" /\ ReadUsers)
    \/ (passes = 0 /\ UpdateUsers)
    \/ addUsers
    \/ updateUsers
    \/ removeUsers

SpecDrift == InitRerun /\ [][NextDrift]_vars

\* the state that maps the members of r other than the exempt account to
\* their roles
Projected(r) ==
    [e \in {u \in Emails : r[u] # NoRole /\ Login(u) # admin_user} |-> r[e]]

DirectoryGrows ==
    /\ pc = "idle"
    /\ \E e \in Emails \ directory : directory' = directory \cup {e}
    /\ UNCHANGED <<roster, admin_user, newLists, oldLists, pc, op, oldUsers,
                   newUsers, diff, userMapV, fetchErr, todo, calls, warnings,
                   result, roster0, rosterRead, passes, warnings0>>

\* passes (a refresh, then UpdateUsers) run over and over with the same
\* configuration while the user list grows; nobody else touches the roster
NextRetry ==
    \/ (~Refreshed /\ ReadUsers)
    \/ (Refreshed /\ UpdateUsers)
    \/ addUsers
    \/ updateUsers
    \/ removeUsers
    \/ DirectoryGrows

SpecRetry == InitRerun /\ [][NextRetry]_vars

\* the users the pass before skipped in the given phase
SkippedBefore(phase) == {e \in Emails : <<phase, e>> \in warnings0}

\* the phase did not skip e and, once over without a failed call, called for e
TriedIn(phase, e) ==
    /\ <<phase, e>> \notin warnings
    /\ (Returned /\ ~PhaseAborted(phase)) => e \in Called(phase)

\* C18: an email whose add the pass before skipped is, in this pass with the
\* same configuration, again absent from the observed and present in the
\* desired state and so again in add; an email whose remove was skipped is
\* again in the observed and absent from the desired state and so again in
\* remove.  When the user list now holds the email the phase does not skip it
\* again but makes the call, which adds or removes the user when it succeeds.
C18_SkippedComesBack ==
    Diffed =>
        /\ \A e \in SkippedBefore("add") :
              /\ e \notin DOMAIN oldUsers
              /\ e \in DOMAIN newUsers
              /\ e \in DOMAIN diff.add
              /\ e \in DOMAIN userMapV => TriedIn("add", e)
              /\ (\E i \in CallsAbout(e) : calls[i].ok) => roster[e] = newUsers[e]
        /\ \A e \in SkippedBefore("remove") :
              /\ e \in DOMAIN oldUsers
              /\ e \notin DOMAIN newUsers
              /\ e \in diff.remove
              /\ e \in DOMAIN userMapV => TriedIn("remove", e)
              /\ (\E i \in CallsAbout(e) : calls[i].ok) => roster[e] = NoRole

\* a user whose add was skipped in the pass before has now been added, the
\* user list having got its email in between
C18_Witness ==
    /\ Diffed
    /\ Returned
    /\ \E e \in SkippedBefore("add") :
          /\ e \in Called("add")
          /\ roster0[e] = NoRole
          /\ roster[e] = newUsers[e]

\* a user whose remove was skipped in the pass before is skipped again
C18_WitnessRemove ==
    /\ Diffed
    /\ Returned
    /\ \E e \in SkippedBefore("remove") :
          /\ <<"remove", e>> \in warnings
          /\ roster[e] # NoRole


\* ------------------------------------------------- nothing left to do
\* a pass has returned whose user listing succeeded, which skipped nobody and
\* whose calls all succeeded, and the refresh after it has succeeded too
CleanPassRefreshed ==
    /\ Refreshed
    /\ passes >= 1
    /\ ~fetchErr
    /\ warnings = {}
    /\ AllCallsOk

\* a configured list names the email of the account with the exempt login
ExemptConfigured ==
    \E e \in Configured : admin_user # "" /\ Login(e) = admin_user

\* an update pass starts
UpdateStarts == pc = "idle" /\ op' = "update"

\* a pass whose diff is empty issues no call
EmptyDiffNoCall == (Diffed /\ diff = EmptyDiff) => calls' = <<>>

\* C20 as stated: the update pass that follows a pass in which every diff email
\* resolved and every call succeeded, with the same configuration and nobody
\* else changing the roster, computes an empty add, update and remove and
\* issues no call.
C20_ConvergedNoCalls ==
    [][/\ (CleanPassRefreshed /\ UpdateStarts) => diff' = EmptyDiff
       /\ EmptyDiffNoCall]_vars

\* C20 amended: when no configured list names the email of the account with
\* the exempt login, the update pass that follows a pass in which every diff
\* email resolved and every call succeeded, with the same configuration and
\* nobody else changing the roster, computes an empty add, update and remove
\* and issues no call.
C20_ConvergedNoCallsExemptAside ==
    [][/\ (CleanPassRefreshed /\ ~ExemptConfigured /\ UpdateStarts)
            => diff' = EmptyDiff
       /\ EmptyDiffNoCall]_vars

\* a later pass over a roster that earlier passes brought to a non-empty
\* desired state has returned without a call
C20_Witness ==
    /\ Diffed
    /\ Returned
    /\ passes = MaxPasses
    /\ ~fetchErr
    /\ warnings0 = {}
    /\ ~ExemptConfigured
    /\ Desired # EmptyMap
    /\ Converged
    /\ diff = EmptyDiff
    /\ calls = <<>>

====
